---- MODULE Spec2Model ----
(***************************************************************************)
(* Model of create_icon.py: the icon renderer (create_icon), the bundle    *)
(* converter (create_icns) and the script entry point (__main__).          *)
(*                                                                         *)
(* The environment is nondeterministic: the image library may be missing,  *)
(* Resources/ may or may not exist and may or may not be creatable, every  *)
(* file write may raise, and the external tool (sips) may succeed, exit    *)
(* non-zero, be missing, or fail to launch with another OSError.           *)
(* `entry` tells how the module is used: run as a script ("main"), or      *)
(* imported and one of its two functions called directly.                  *)
(***************************************************************************)
EXTENDS Integers, Sequences, FiniteSets, TLC

VARIABLES entry, PIL_AVAILABLE, pc, dirExists, fs, writeLog, out,
          shapes, i, k, iconRet, icnsRet, iconCalls, icnsCalls,
          sipsRuns, raised, exitCode

vars == <<entry, PIL_AVAILABLE, pc, dirExists, fs, writeLog, out,
          shapes, i, k, iconRet, icnsRet, iconCalls, icnsCalls,
          sipsRuns, raised, exitCode>>

(* ---------------- program constants ---------------- *)

size == 512

primary_color == <<70, 130, 255, 255>>

secondary_color == <<255, 255, 255, 255>>

accent_color == <<255, 140, 0, 255>>

ring_color == <<255, 255, 255, 128>>

NodeCount == 6

sizes_short == <<16, 32, 64, 128, 256>>

sizes == <<16, 32, 64, 128, 256, 512>>

BasePng == "Resources/AppIcon.png"

IcnsPath == "Resources/AppIcon.icns"

SizedPng(s) == "Resources/AppIcon_" \o ToString(s) \o "x" \o ToString(s) \o ".png"

AllSizes == {16, 32, 64, 128, 256, 512}

AllPaths == {BasePng, IcnsPath} \cup {SizedPng(s) : s \in AllSizes}

(* printed lines *)
MsgBanner == "Creating PortList app icon..."

MsgInstallHint == "PIL (Pillow) not available. Install with: pip3 install Pillow"

MsgCreatedPng == "Created Resources/AppIcon.png"

MsgCreatedSizes == "Created multiple icon sizes"

MsgPngNotFound == "AppIcon.png not found"

MsgCreatedIcns == "Created Resources/AppIcon.icns"

MsgSipsNotAvailable == "Could not create ICNS file (sips not available)"

MsgSipsNotFound == "Could not create ICNS file (sips not found)"

MsgComplete == "Icon creation complete!"

MsgFailed == "Icon creation failed"

(* ---------------- file system contents ---------------- *)

Absent == [kind |-> "absent", px |-> 0]

Stale == [kind |-> "stale", px |-> 0]

Png(s) == [kind |-> "png", px |-> s]

Icns == [kind |-> "icns", px |-> 0]

Exists(p) == fs[p].kind # "absent"

NoExc == [exc |-> "none", at |-> "none"]

Entries == {"main", "create_icon", "create_icns"}

SipsOutcomes == {"ok", "nonzero", "missing", "oserror"}

(* ---------------- pure helpers ---------------- *)

node_color_mut(n) == IF n % 3 = 0 THEN accent_color ELSE secondary_color

node_color(n) == IF n % 2 = 0 THEN accent_color ELSE secondary_color

Emit(line) == Append(out, line)

(* where control goes when create_icon / create_icns return *)
AfterIcon == IF entry = "main" THEN "main_if" ELSE "returned"

AfterIcns == IF entry = "main" THEN "main_done" ELSE "returned"

(* an exception nothing catches: the script dies with a traceback and      *)
(* status 1; a direct call propagates it to the caller                     *)
Uncaught(e, site) ==
    /\ raised' = [exc |-> e, at |-> site]
    /\ pc' = IF entry = "main" THEN "exit" ELSE "returned"
    /\ exitCode' = IF entry = "main" THEN 1 ELSE exitCode

(* ---------------- initial state ---------------- *)

Init ==
    /\ entry \in Entries
    /\ PIL_AVAILABLE \in BOOLEAN
    /\ pc = entry
    /\ dirExists \in BOOLEAN
    /\ \E b, c \in {Absent, Stale} :
          fs = [p \in AllPaths |->
                  IF ~dirExists THEN Absent
                  ELSE IF p = BasePng THEN b
                  ELSE IF p = IcnsPath THEN c
                  ELSE Absent]
    /\ writeLog = <<>>
    /\ out = <<>>
    /\ shapes = <<>>
    /\ i = 0
    /\ k = 1
    /\ iconRet = "none"
    /\ icnsRet = "none"
    /\ iconCalls = 0
    /\ icnsCalls = 0
    /\ sipsRuns = <<>>
    /\ raised = NoExc
    /\ exitCode = -1

(* ---------------- __main__ ---------------- *)

\* line 121
MainStart ==
    /\ pc = "main"
    /\ out' = Emit(MsgBanner)
    /\ pc' = "makedirs"
    /\ UNCHANGED <<entry, PIL_AVAILABLE, dirExists, fs, writeLog, shapes, i, k,
                   iconRet, icnsRet, iconCalls, icnsCalls, sipsRuns, raised, exitCode>>

MakeDirs_nocreate ==
    /\ pc = "makedirs"
    /\ pc' = "create_icon"
    /\ UNCHANGED <<entry, PIL_AVAILABLE, dirExists, fs, writeLog, out, shapes, i, k,
                   iconRet, icnsRet, iconCalls, icnsCalls, sipsRuns, raised, exitCode>>

\* line 125: os.makedirs('Resources', exist_ok=True)
MakeDirs ==
    /\ pc = "makedirs"
    /\ \/ /\ dirExists
          /\ pc' = "create_icon"
          /\ UNCHANGED <<dirExists, raised, exitCode>>
       \/ /\ ~dirExists
          /\ dirExists' = TRUE
          /\ pc' = "create_icon"
          /\ UNCHANGED <<raised, exitCode>>
       \/ /\ ~dirExists
          /\ Uncaught("OSError", "makedirs")
          /\ UNCHANGED dirExists
    /\ UNCHANGED <<entry, PIL_AVAILABLE, fs, writeLog, out, shapes, i, k,
                   iconRet, icnsRet, iconCalls, icnsCalls, sipsRuns>>

\* lines 127-132
MainIf ==
    /\ pc = "main_if"
    /\ IF iconRet = "True"
       THEN /\ pc' = "create_icns"
            /\ UNCHANGED <<out, exitCode>>
       ELSE /\ out' = Emit(MsgFailed)
            /\ exitCode' = 1
            /\ pc' = "exit"
    /\ UNCHANGED <<entry, PIL_AVAILABLE, dirExists, fs, writeLog, shapes, i, k,
                   iconRet, icnsRet, iconCalls, icnsCalls, sipsRuns, raised>>

\* line 129, then the interpreter ends normally
MainDone ==
    /\ pc = "main_done"
    /\ out' = Emit(MsgComplete)
    /\ exitCode' = 0
    /\ pc' = "exit"
    /\ UNCHANGED <<entry, PIL_AVAILABLE, dirExists, fs, writeLog, shapes, i, k,
                   iconRet, icnsRet, iconCalls, icnsCalls, sipsRuns, raised>>

(* ---------------- create_icon ---------------- *)

CreateIconEnter_mut ==
    /\ pc = "create_icon"
    /\ iconCalls' = iconCalls + 1
    /\ IF ~PIL_AVAILABLE
       THEN /\ out' = Emit(MsgInstallHint)
            /\ iconRet' = "True"
            /\ pc' = AfterIcon
       ELSE /\ pc' = "canvas"
            /\ UNCHANGED <<out, iconRet>>
    /\ UNCHANGED <<entry, PIL_AVAILABLE, dirExists, fs, writeLog, shapes, i, k,
                   icnsRet, icnsCalls, sipsRuns, raised, exitCode>>

\* lines 22-29
CreateIconEnter ==
    /\ pc = "create_icon"
    /\ iconCalls' = iconCalls + 1
    /\ IF ~PIL_AVAILABLE
       THEN /\ out' = Emit(MsgInstallHint)
            /\ iconRet' = "False"
            /\ pc' = AfterIcon
       ELSE /\ pc' = "canvas"
            /\ UNCHANGED <<out, iconRet>>
    /\ UNCHANGED <<entry, PIL_AVAILABLE, dirExists, fs, writeLog, shapes, i, k,
                   icnsRet, icnsCalls, sipsRuns, raised, exitCode>>

Shape(kind, n, fill) == [kind |-> kind, idx |-> n, fill |-> fill]

\* lines 32-49: new transparent canvas, background circle, hub
Canvas ==
    /\ pc = "canvas"
    /\ shapes' = <<Shape("background", 0, primary_color), Shape("hub", 0, secondary_color)>>
    /\ i' = 0
    /\ pc' = "nodes"
    /\ UNCHANGED <<entry, PIL_AVAILABLE, dirExists, fs, writeLog, out, k,
                   iconRet, icnsRet, iconCalls, icnsCalls, sipsRuns, raised, exitCode>>

\* lines 56-67: one iteration of the spoke-and-node loop
DrawNode ==
    /\ pc = "nodes"
    /\ i < NodeCount
    /\ shapes' = shapes \o <<Shape("spoke", i, secondary_color),
                             Shape("node", i, node_color(i))>>
    /\ IF i + 1 < NodeCount
       THEN i' = i + 1 /\ pc' = "nodes"
       ELSE i' = 0 /\ pc' = "ring"
    /\ UNCHANGED <<entry, PIL_AVAILABLE, dirExists, fs, writeLog, out, k,
                   iconRet, icnsRet, iconCalls, icnsCalls, sipsRuns, raised, exitCode>>

\* lines 70-80: one iteration of the loop joining node i to node (i+1) % 6
DrawRing ==
    /\ pc = "ring"
    /\ i < NodeCount
    /\ shapes' = Append(shapes, Shape("ring", i, ring_color))
    /\ IF i + 1 < NodeCount
       THEN i' = i + 1 /\ pc' = "ring"
       ELSE i' = i + 1 /\ pc' = "save_base"
    /\ UNCHANGED <<entry, PIL_AVAILABLE, dirExists, fs, writeLog, out, k,
                   iconRet, icnsRet, iconCalls, icnsCalls, sipsRuns, raised, exitCode>>

\* lines 83-84: img.save('Resources/AppIcon.png')
SaveBase ==
    /\ pc = "save_base"
    /\ \/ /\ dirExists
          /\ fs' = [fs EXCEPT ![BasePng] = Png(size)]
          /\ writeLog' = Append(writeLog, BasePng)
          /\ out' = Emit(MsgCreatedPng)
          /\ k' = 1
          /\ pc' = "sizes"
          /\ UNCHANGED <<raised, exitCode>>
       \/ /\ dirExists
          /\ Uncaught("OSError", "create_icon")
          /\ UNCHANGED <<fs, writeLog, out, k>>
       \/ /\ ~dirExists
          /\ Uncaught("FileNotFoundError", "create_icon")
          /\ UNCHANGED <<fs, writeLog, out, k>>
    /\ UNCHANGED <<entry, PIL_AVAILABLE, dirExists, shapes, i,
                   iconRet, icnsRet, iconCalls, icnsCalls, sipsRuns>>

\* lines 87-90: one iteration of the resize-and-save loop
SaveResized ==
    /\ pc = "sizes"
    /\ k <= Len(sizes)
    /\ \/ /\ fs' = [fs EXCEPT ![SizedPng(sizes[k])] = Png(sizes[k])]
          /\ writeLog' = Append(writeLog, SizedPng(sizes[k]))
          /\ k' = k + 1
          /\ pc' = IF k + 1 <= Len(sizes) THEN "sizes" ELSE "icon_ret"
          /\ UNCHANGED <<raised, exitCode>>
       \/ /\ Uncaught("OSError", "create_icon")
          /\ UNCHANGED <<fs, writeLog, k>>
    /\ UNCHANGED <<entry, PIL_AVAILABLE, dirExists, out, shapes, i,
                   iconRet, icnsRet, iconCalls, icnsCalls, sipsRuns>>

\* lines 92-93
CreateIconReturn ==
    /\ pc = "icon_ret"
    /\ out' = Emit(MsgCreatedSizes)
    /\ iconRet' = "True"
    /\ pc' = AfterIcon
    /\ UNCHANGED <<entry, PIL_AVAILABLE, dirExists, fs, writeLog, shapes, i, k,
                   icnsRet, iconCalls, icnsCalls, sipsRuns, raised, exitCode>>

(* ---------------- create_icns ---------------- *)

CreateIcnsEnter_nocheck ==
    /\ pc = "create_icns"
    /\ icnsCalls' = icnsCalls + 1
    /\ pc' = "sips"
    /\ UNCHANGED <<out, icnsRet>>
    /\ UNCHANGED <<entry, PIL_AVAILABLE, dirExists, fs, writeLog, shapes, i, k,
                   iconRet, iconCalls, sipsRuns, raised, exitCode>>

\* lines 95-102
CreateIcnsEnter ==
    /\ pc = "create_icns"
    /\ icnsCalls' = icnsCalls + 1
    /\ IF ~Exists(BasePng)
       THEN /\ out' = Emit(MsgPngNotFound)
            /\ icnsRet' = "False"
            /\ pc' = AfterIcns
       ELSE /\ pc' = "sips"
            /\ UNCHANGED <<out, icnsRet>>
    /\ UNCHANGED <<entry, PIL_AVAILABLE, dirExists, fs, writeLog, shapes, i, k,
                   iconRet, iconCalls, sipsRuns, raised, exitCode>>

\* what sips does to the file system: it writes the bundle only when it
\* runs and exits 0 (it reads the source PNG, so that must exist)
SipsEffect(o) ==
    IF o = "ok" THEN [fs EXCEPT ![IcnsPath] = Icns] ELSE fs

RunSips_retry ==
    /\ pc = "sips"
    /\ \E o \in SipsOutcomes :
          /\ o = "ok" => Exists(BasePng)
          /\ sipsRuns' = Append(sipsRuns, o)
          /\ fs' = SipsEffect(o)
          /\ writeLog' = IF o = "ok" THEN Append(writeLog, IcnsPath) ELSE writeLog
          /\ CASE o = "ok" ->
                    /\ out' = Emit(MsgCreatedIcns)
                    /\ icnsRet' = "True"
                    /\ pc' = AfterIcns
                    /\ UNCHANGED <<raised, exitCode>>
               [] o = "nonzero" ->
                    /\ out' = Emit(MsgSipsNotAvailable)
                    /\ icnsRet' = IF Len(sipsRuns) = 0 THEN icnsRet ELSE "False"
                    /\ pc' = IF Len(sipsRuns) = 0 THEN "sips" ELSE AfterIcns
                    /\ UNCHANGED <<raised, exitCode>>
               [] o = "missing" ->
                    /\ out' = Emit(MsgSipsNotFound)
                    /\ icnsRet' = "False"
                    /\ pc' = AfterIcns
                    /\ UNCHANGED <<raised, exitCode>>
               [] o = "oserror" ->
                    /\ Uncaught("OSError", "create_icns")
                    /\ UNCHANGED <<out, icnsRet>>
    /\ UNCHANGED <<entry, PIL_AVAILABLE, dirExists, shapes, i, k,
                   iconRet, iconCalls, icnsCalls>>

RunSips_nocatch ==
    /\ pc = "sips"
    /\ \E o \in SipsOutcomes :
          /\ o = "ok" => Exists(BasePng)
          /\ sipsRuns' = Append(sipsRuns, o)
          /\ fs' = SipsEffect(o)
          /\ writeLog' = IF o = "ok" THEN Append(writeLog, IcnsPath) ELSE writeLog
          /\ CASE o = "ok" ->
                    /\ out' = Emit(MsgCreatedIcns)
                    /\ icnsRet' = "True"
                    /\ pc' = AfterIcns
                    /\ UNCHANGED <<raised, exitCode>>
               [] o = "missing" ->
                    /\ out' = Emit(MsgSipsNotFound)
                    /\ icnsRet' = "False"
                    /\ pc' = AfterIcns
                    /\ UNCHANGED <<raised, exitCode>>
               [] o \in {"nonzero", "oserror"} ->
                    /\ Uncaught("OSError", "create_icns")
                    /\ UNCHANGED <<out, icnsRet>>
    /\ UNCHANGED <<entry, PIL_AVAILABLE, dirExists, shapes, i, k,
                   iconRet, iconCalls, icnsCalls>>

\* lines 104-118: subprocess.run([...sips...], check=True) in a try that
\* catches CalledProcessError and FileNotFoundError, nothing else
RunSips ==
    /\ pc = "sips"
    /\ \E o \in SipsOutcomes :
          /\ o = "ok" => Exists(BasePng)
          /\ sipsRuns' = Append(sipsRuns, o)
          /\ fs' = SipsEffect(o)
          /\ writeLog' = IF o = "ok" THEN Append(writeLog, IcnsPath) ELSE writeLog
          /\ CASE o = "ok" ->
                    /\ out' = Emit(MsgCreatedIcns)
                    /\ icnsRet' = "True"
                    /\ pc' = AfterIcns
                    /\ UNCHANGED <<raised, exitCode>>
               [] o = "nonzero" ->
                    /\ out' = Emit(MsgSipsNotAvailable)
                    /\ icnsRet' = "False"
                    /\ pc' = AfterIcns
                    /\ UNCHANGED <<raised, exitCode>>
               [] o = "missing" ->
                    /\ out' = Emit(MsgSipsNotFound)
                    /\ icnsRet' = "False"
                    /\ pc' = AfterIcns
                    /\ UNCHANGED <<raised, exitCode>>
               [] o = "oserror" ->
                    /\ Uncaught("OSError", "create_icns")
                    /\ UNCHANGED <<out, icnsRet>>
    /\ UNCHANGED <<entry, PIL_AVAILABLE, dirExists, shapes, i, k,
                   iconRet, iconCalls, icnsCalls>>

(* ---------------- specification ---------------- *)

Next ==
    \/ MainStart
    \/ MakeDirs
    \/ MainIf
    \/ MainDone
    \/ CreateIconEnter
    \/ Canvas
    \/ DrawNode
    \/ DrawRing
    \/ SaveBase
    \/ SaveResized
    \/ CreateIconReturn
    \/ CreateIcnsEnter
    \/ RunSips

Spec == Init /\ [][Next]_vars

(* ---------------- vocabulary of the properties ---------------- *)

Has(seq, x) == \E n \in 1..Len(seq) : seq[n] = x

Last(seq) == seq[Len(seq)]

Count(seq, x) == Cardinality({n \in 1..Len(seq) : seq[n] = x})

IsScript == entry = "main"

Exited == IsScript /\ pc = "exit"

NoFileCreated ==
    /\ writeLog = <<>>
    /\ \A p \in AllPaths : fs[p].kind \in {"absent", "stale"}

\* the seven PNG outputs, spelled out, with their pixel width
ExpectedPng ==
    [p \in {"Resources/AppIcon.png", "Resources/AppIcon_16x16.png",
            "Resources/AppIcon_32x32.png", "Resources/AppIcon_64x64.png",
            "Resources/AppIcon_128x128.png", "Resources/AppIcon_256x256.png",
            "Resources/AppIcon_512x512.png"} |->
        CASE p = "Resources/AppIcon.png" -> 512
          [] p = "Resources/AppIcon_16x16.png" -> 16
          [] p = "Resources/AppIcon_32x32.png" -> 32
          [] p = "Resources/AppIcon_64x64.png" -> 64
          [] p = "Resources/AppIcon_128x128.png" -> 128
          [] p = "Resources/AppIcon_256x256.png" -> 256
          [] p = "Resources/AppIcon_512x512.png" -> 512]

SevenPngPresent ==
    \A p \in DOMAIN ExpectedPng :
        p \in AllPaths /\ fs[p] = [kind |-> "png", px |-> ExpectedPng[p]]

IsPngPath(p) == p # IcnsPath

RendererWrites == SelectSeq(writeLog, IsPngPath)

ConverterFailedCaught ==
    sipsRuns # <<>> /\ Last(sipsRuns) \in {"missing", "nonzero"}

RendererFailed == iconRet = "False" \/ raised.at = "create_icon"

RendererPcs == {"canvas", "nodes", "ring", "save_base", "sizes", "icon_ret"}

(* ---------------- C1 ---------------- *)

C2_ConverterFailureKeepsPngs ==
    (IsScript /\ iconRet = "True" /\ ConverterFailedCaught) =>
        /\ fs[IcnsPath].kind # "icns"
        /\ ~Has(writeLog, IcnsPath)
        /\ SevenPngPresent
        /\ pc \in {"main_done", "exit"}
        /\ pc = "exit" => exitCode = 0

C2_Witness ==
    /\ Exited /\ iconRet = "True" /\ ConverterFailedCaught
    /\ exitCode = 0 /\ SevenPngPresent

(* ---------------- C3 ---------------- *)

\* C3: the script's exit status is non-zero only if the renderer itself
\* failed (returned False or raised); neither the directory-creation step nor
\* the converter step ever turns the status away from 0.
C3_ExitNonZeroOnlyIfRendererFailed ==
    (Exited /\ exitCode # 0) => RendererFailed

(* ---------------- C4 ---------------- *)

\* C4: a script run ensures the directory, then runs the renderer, then runs
\* the converter iff the renderer returned success, then prints a final
\* status line; every run that got to the end of the renderer ends with a
\* final status line, whatever the converter did.
C4_SequenceAndFinalLine ==
    IsScript =>
        /\ (iconCalls > 0 \/ pc \in RendererPcs) => dirExists
        /\ (icnsCalls > 0 \/ pc \in {"create_icns", "sips"}) => iconRet = "True"
        /\ pc = "exit" => (icnsCalls = 1 <=> iconRet = "True")
        /\ (pc = "exit" /\ iconRet # "none") =>
              /\ out # <<>>
              /\ Last(out) \in {MsgComplete, MsgFailed}

(* ---------------- C5 ---------------- *)

\* C5: whenever the renderer has returned True it has written exactly the
\* seven PNG files (AppIcon.png at 512, AppIcon_SxS.png at S for the six
\* sizes), each present with its width, and nothing else.
C5_SevenPngs ==
    (entry \in {"main", "create_icon"} /\ iconRet = "True") =>
        /\ PIL_AVAILABLE
        /\ SevenPngPresent
        /\ Len(RendererWrites) = 7
        /\ {RendererWrites[n] : n \in 1..Len(RendererWrites)} = DOMAIN ExpectedPng
        /\ \A p \in AllPaths : fs[p].kind = "png" => p \in DOMAIN ExpectedPng

C5_Witness ==
    /\ entry = "create_icon" /\ pc = "returned" /\ iconRet = "True"
    /\ Len(writeLog) = 7

(* ---------------- C6 ---------------- *)

\* C6: every failed invocation of sips (missing, non-zero exit, or any other
\* failure to launch) is caught: create_icns prints a warning and returns
\* False without raising, and the script still prints the success line and
\* exits 0.
C6_AnyInvocationErrorCaught ==
    (sipsRuns # <<>> /\ Last(sipsRuns) # "ok" /\ pc \in {"main_done", "exit", "returned"}) =>
        /\ raised = NoExc
        /\ icnsRet = "False"
        /\ Has(out, MsgSipsNotAvailable) \/ Has(out, MsgSipsNotFound)
        /\ Exited => (Last(out) = MsgComplete /\ exitCode = 0)

(* ---------------- C7 ---------------- *)

\* C7 (as stated): the renderer creates Resources/ itself when it is absent,
\* so whenever it gets to writing (or has returned True) the directory
\* exists, whoever called it.
C7_Original ==
    (entry \in {"main", "create_icon"} /\ PIL_AVAILABLE) =>
        /\ pc \in {"sizes", "icon_ret"} => dirExists
        /\ (pc = "returned" /\ ~dirExists) => FALSE

\* C7 (amended): the renderer never creates the directory. In a script run
\* the entry point has created Resources/ before the renderer starts;
\* create_icon called directly with Resources/ absent raises
\* FileNotFoundError at the first save, writes nothing and returns nothing.
C7_Amended ==
    /\ (IsScript /\ (pc \in RendererPcs \/ iconCalls > 0)) => dirExists
    /\ (entry = "create_icon" /\ ~dirExists) =>
          /\ NoFileCreated
          /\ iconRet # "True"
          /\ pc \notin {"sizes", "icon_ret"}
          /\ (pc = "returned" /\ PIL_AVAILABLE) =>
                /\ raised = [exc |-> "FileNotFoundError", at |-> "create_icon"]
                /\ iconRet = "none"

C7_Witness ==
    /\ entry = "create_icon" /\ PIL_AVAILABLE /\ ~dirExists /\ pc = "returned"
    /\ raised.exc = "FileNotFoundError"

(* ---------------- C8 ---------------- *)

IsNode(sh) == sh.kind = "node"

Nodes == SelectSeq(shapes, IsNode)

\* C8: node n is drawn with the accent colour when n is even and with the
\* secondary colour when n is odd; adjacent nodes n and (n+1) mod 6, the pair
\* (5,0) included, differ in colour, and each colour is used three times.
C8_NodeColoursAlternate ==
    /\ \A n \in 1..Len(Nodes) :
          /\ Nodes[n].idx = n - 1
          /\ Nodes[n].fill = <<<<255, 140, 0, 255>>, <<255, 255, 255, 255>>,
                               <<255, 140, 0, 255>>, <<255, 255, 255, 255>>,
                               <<255, 140, 0, 255>>, <<255, 255, 255, 255>>>>[n]
    /\ \A n \in 1..(Len(Nodes) - 1) : Nodes[n].fill # Nodes[n + 1].fill
    /\ pc \in {"ring", "save_base", "sizes", "icon_ret"} =>
          /\ Len(Nodes) = 6
          /\ \A n \in 0..5 : Nodes[n + 1].fill # Nodes[((n + 1) % 6) + 1].fill
          /\ Cardinality({n \in 1..6 : Nodes[n].fill = accent_color}) = 3
          /\ Cardinality({n \in 1..6 : Nodes[n].fill = secondary_color}) = 3

C8_Witness ==
    /\ pc = "ring" /\ Len(Nodes) = 6
    /\ Nodes[6].fill # Nodes[1].fill

(* ---------------- C9 ---------------- *)

NoStepRepeated ==
    /\ iconCalls <= 1
    /\ icnsCalls <= 1
    /\ Len(sipsRuns) <= 1
    /\ \A p \in AllPaths : Count(writeLog, p) <= 1

C10_ToolNeedsSourcePng ==
    /\ (pc = "sips" \/ sipsRuns # <<>>) => Exists(BasePng)
    /\ Has(out, MsgPngNotFound) =>
          /\ ~IsScript
          /\ sipsRuns = <<>>
          /\ icnsRet = "False"
          /\ raised = NoExc
    /\ (icnsCalls > 0 /\ ~Exists(BasePng)) => Has(out, MsgPngNotFound)
    /\ (IsScript /\ (icnsCalls > 0 \/ pc = "create_icns")) => fs[BasePng] = Png(512)

C10_Witness ==
    /\ entry = "create_icns" /\ pc = "returned" /\ ~Exists(BasePng)
    /\ Has(out, MsgPngNotFound) /\ icnsRet = "False" /\ sipsRuns = <<>>

====
